---- MODULE Spec2Model ----
(***************************************************************************)
(* A model of the simplemdmapi client library: the paginate generator, the *)
(* method_params validation pipeline, the validate_pin decorator and the   *)
(* request decorator, the retrying session adapter, the URL builder and    *)
(* the token reader, as they are written in src/simplemdmapi.              *)
(*                                                                         *)
(* Python values are modelled as TLA+ strings.  A str is the string        *)
(* itself, the other values a caller can pass are the tokens PyNone,       *)
(* PyFalse, PyTrue and PyZero.  Record ids and page sizes are integers.    *)
(***************************************************************************)
EXTENDS Integers, Sequences, FiniteSets, TLC

VARIABLES
    dry_run,     \* self.dry_run of the resource client
    phase,       \* "idle", "listing" (a generator exists), "called", "verb", "sent", "session", "joined", "connected"
    call,        \* the operation invoked and the caller's arguments
    outcome,     \* how the invocation ended: "pending", "returned", an error kind
    result,      \* what the caller got back: "None", "Response" or "generator"
    httpLog,     \* every session.request(...) issued, in order
    printed,     \* every dry-run print, in order
    serverList,  \* the service's record list for the listed resource
    gen,         \* generator state: "none", "created", "suspended", "done"
    kwargs,      \* kwargs local to paginate.wrap_actions
    paginate,    \* the loop flag of paginate.wrap_actions
    objects,     \* objects of the current page not yet yielded
    yielded,     \* records handed to the consumer, in order
    served,      \* the page responses received, in order
    mounted,     \* status_forcelist of the adapter mounted on the session
    transport,   \* how the transport answers the attempts of the call
    attempts,    \* attempts the adapter has put on the wire
    opened,      \* upload files request.wrap_actions has opened
    closed,      \* upload files closed again
    earlier,     \* the kwargs of the calls the client answered before this one
    status_lists,\* HTTP_IGNORE_STATUS_ERR and HTTP_RETRY_STATUS_LIST as self sees them
    disk         \* whether the file the call names exists, and is a signed package

vars == <<dry_run, phase, call, outcome, result, httpLog, printed, serverList,
          gen, kwargs, paginate, objects, yielded, served, mounted,
          transport, attempts, opened, closed,
                   earlier, status_lists, disk>>

-----------------------------------------------------------------------------
(* Bounds of the model *)

MaxRecords == 3      \* longest service-side list
MaxLimit == 2        \* largest caller-supplied page size
MaxFetches == MaxRecords + 2   \* cap on the fetches of one pagination run

-----------------------------------------------------------------------------
(* Python helpers *)

PyNone == "<None>"
PyFalse == "<False>"
PyTrue == "<True>"
PyZero == "<0>"
EmptyStr == ""

\* bool(value) for the values of the model
Truthy(v) == v \notin {PyNone, PyFalse, PyZero, EmptyStr}

\* dict.get(k, d)
Get(d, k, dflt) == IF k \in DOMAIN d THEN d[k] ELSE dflt

\* dict.setdefault(k, v) (the dict afterwards)
SetDefault(d, k, v) == IF k \in DOMAIN d THEN d ELSE d @@ (k :> v)

\* d[k] = v (the dict afterwards)
SetItem(d, k, v) == (k :> v) @@ d

\* del d[k]
DelItem(d, k) == [x \in (DOMAIN d) \ {k} |-> d[x]]

\* {k: v for k, v in d.items() if k in keys}
Restrict(d, keys) == [x \in (DOMAIN d) \cap keys |-> d[x]]

EmptyDict == <<>>

\* an optional keyword argument
Opt(k, v, present) == IF present THEN k :> v ELSE EmptyDict

Min(a, b) == IF a < b THEN a ELSE b

Range(s) == {s[i] : i \in 1..Len(s)}

Reverse(s) == [i \in 1..Len(s) |-> s[Len(s) + 1 - i]]

RECURSIVE Flatten(_)
Flatten(ss) == IF ss = <<>> THEN <<>> ELSE Head(ss) \o Flatten(Tail(ss))

IsPrefix(s, t) == Len(s) <= Len(t) /\ SubSeq(t, 1, Len(s)) = s

\* "/".join(parts)
RECURSIVE Join(_)
Join(parts) ==
    IF parts = <<>> THEN ""
    ELSE IF Len(parts) = 1 THEN parts[1]
    ELSE parts[1] \o "/" \o Join(Tail(parts))

-----------------------------------------------------------------------------
(* The service, as the paginate docstring describes it: starting_after is  *)
(* the id of an object, an unspecified cursor starts at the beginning of   *)
(* the list, limit is the page size, direction the sort direction.         *)

NoneId == -1     \* obj.get("id") of a record that carries no "id" key
DefaultLimit == 100
DefaultStartingAfter == 0

\* record i of the list carries id i, or no id at all
ServerLists ==
    UNION { { [i \in 1..n |-> [name |-> i, id |-> IF i \in withId THEN i ELSE NoneId]]
                : withId \in SUBSET (1..n) } : n \in 0..MaxRecords }

Ordered(list, direction) == IF direction = "desc" THEN Reverse(list) ELSE list

\* position of the record the cursor names; 0 (the beginning) when the
\* cursor is None (requests sends no such parameter) or names no record
CursorPos(ordered, cursor) ==
    IF cursor # NoneId /\ \E i \in 1..Len(ordered) : ordered[i].id = cursor
    THEN CHOOSE i \in 1..Len(ordered) : ordered[i].id = cursor
    ELSE 0

ServerPage(list, kw) ==
    LET ordered == Ordered(list, kw["direction"])
        pos == CursorPos(ordered, kw["starting_after"])
    IN  [start |-> pos,
         data |-> SubSeq(ordered, pos + 1, Min(pos + kw["limit"], Len(ordered)))]

HasMoreValues == {"true", "false", "absent"}

-----------------------------------------------------------------------------
(* utils.py *)

function_kwargs == {"ignore_statuses", "retry_statuses", "file_upload"}

requests_kwargs ==
    {"method", "url", "params", "data", "headers", "cookies", "files", "auth",
     "timeout", "allow_redirects", "proxies", "hooks", "stream", "verify",
     "cert", "json"}

HTTP_CONNECT_TIMEOUT == 5
HTTP_READ_TIMEOUT == 5
HTTP_MAX_RETRIES == 3
HTTP_RETRY_STATUS_LIST == <<429, 500, 502, 503, 504>>
HTTP_IGNORE_STATUS_ERR == <<200, 201, 202, 500>>

\* consume_kwargs: the request kwargs and the function kwargs
consume_kwargs(kw) ==
    LET param_kwargs == Restrict(kw, (DOMAIN kw) \ (requests_kwargs \cup function_kwargs))
    IN  [rqst |-> SetItem(Restrict(kw, requests_kwargs), "params", param_kwargs),
         func |-> Restrict(kw, function_kwargs)]

\* a variant of consume_func_kwargs that drops the caller's status lists
consume_func_kwargs_defaults(func) ==
    [ignore |-> HTTP_IGNORE_STATUS_ERR, retry |-> HTTP_RETRY_STATUS_LIST]

\* consume_func_kwargs: the ignore list and the retry list of one call
consume_func_kwargs(func) ==
    [ignore |-> Get(func, "ignore_statuses", <<>>) \o status_lists.ignore,
     retry |-> Get(func, "retry_statuses", <<>>) \o status_lists.retry]

\* a variant of lines 98-99 that puts the caller's statuses into the lists
\* of the class: self.HTTP_IGNORE_STATUS_ERR[0:0] = kwargs.get(...)
status_lists_extended(func) ==
    [ignore |-> Get(func, "ignore_statuses", <<>>) \o status_lists.ignore,
     retry |-> Get(func, "retry_statuses", <<>>) \o status_lists.retry]

\* lines 98-99 unpack the lists of the class into new lists: the lists of
\* the class are what they were
status_lists_after(func) == status_lists

BASE_URL == "https://a.simplemdm.com/api"

\* the text of an f-string field holding the tuple (2,)
FormatTuple2 == "(2,)"

\* line 58, rf"{sep}{2,}": the second field is formatted, not kept as a
\* quantifier, and the pattern is sep followed by the group (2,), which
\* matches the text sep "2,"
fslash_reg(sep) == sep \o SubSeq(FormatTuple2, 2, Len(FormatTuple2) - 1)

\* the least element of a non-empty set of numbers
Least(S) == CHOOSE i \in S : \A j \in S : i <= j

\* re.sub of a pattern that is a plain text: every occurrence, leftmost
\* first, is replaced
RECURSIVE SubText(_, _, _)
SubText(s, pat, repl) ==
    LET hits == {i \in 1..(Len(s) - Len(pat) + 1) : SubSeq(s, i, i + Len(pat) - 1) = pat}
    IN  IF hits = {} THEN s
        ELSE SubSeq(s, 1, Least(hits) - 1) \o repl
             \o SubText(SubSeq(s, Least(hits) + Len(pat), Len(s)), pat, repl)

\* the number of "/" at the head of s
RECURSIVE LeadingSlashes(_)
LeadingSlashes(s) ==
    IF s # "" /\ SubSeq(s, 1, 1) = "/"
    THEN 1 + LeadingSlashes(SubSeq(s, 2, Len(s)))
    ELSE 0

\* line 59 and its use in line 61: scheme_reg.sub("://", s), where
\* scheme_reg is ":" followed by three "/" or more
RECURSIVE scheme_sub(_)
scheme_sub(s) ==
    LET hits == {i \in 1..Len(s) :
                    SubSeq(s, i, i) = ":" /\ LeadingSlashes(SubSeq(s, i + 1, Len(s))) >= 3}
    IN  IF hits = {} THEN s
        ELSE LET rest == SubSeq(s, Least(hits) + 1, Len(s))
             IN  SubSeq(s, 1, Least(hits) - 1) \o "://"
                 \o scheme_sub(SubSeq(rest, LeadingSlashes(rest) + 1, Len(rest)))

EndsWithSlash(s) == s # "" /\ SubSeq(s, Len(s), Len(s)) = "/"

\* urljoin(*paths, base=base), sep being "/"
urljoin(paths, base) ==
    LET kept == SelectSeq(paths, LAMBDA q : q # "")
        joined == SubText(Join(kept), fslash_reg("/"), "/")
    IN  scheme_sub(base \o (IF EndsWithSlash(base) THEN "" ELSE "/") \o joined)

\* generate_url(self, *args)
generate_url(api_vers, endpoint, args) ==
    urljoin(<<api_vers, endpoint>> \o args, BASE_URL)

\* Response.raise_for_status() raises HTTPError
RaisesForStatus(status) == 400 <= status /\ status < 600

\* api_error_check raises APIException
api_error_check(resp) == resp.errors

-----------------------------------------------------------------------------
(* decorators.py: request *)

\* bool(rqst_kwargs.get("files"))
FilesTruthy(rqst) == "files" \in DOMAIN rqst /\ DOMAIN rqst["files"] # {}

\* a variant of lines 116-120 that sets the timeout for uploads as well
RequestKwargsTimedUploads(rqst, fieldname) ==
    LET timed == SetDefault(rqst, "timeout", <<HTTP_CONNECT_TIMEOUT, HTTP_READ_TIMEOUT>>)
    IN  IF Truthy(Get(timed, "json", PyNone))
        THEN SetItem(timed, "headers", "Content-Type" :> "application/json")
        ELSE timed

\* a variant of lines 116-120 that leaves the headers to the caller
RequestKwargsCallerHeaders(rqst, fieldname) ==
    IF fieldname = PyNone /\ ~FilesTruthy(rqst)
    THEN SetDefault(rqst, "timeout", <<HTTP_CONNECT_TIMEOUT, HTTP_READ_TIMEOUT>>)
    ELSE rqst

\* a variant of lines 116-120 that adds the content type to the caller's
\* headers: rqst_kwargs.setdefault("headers", {}).update(...)
RequestKwargsMergedHeaders(rqst, fieldname) ==
    LET timed == IF fieldname = PyNone /\ ~FilesTruthy(rqst)
                 THEN SetDefault(rqst, "timeout", <<HTTP_CONNECT_TIMEOUT, HTTP_READ_TIMEOUT>>)
                 ELSE rqst
    IN  IF Truthy(Get(timed, "json", PyNone))
        THEN SetItem(timed, "headers",
                     SetItem(Get(timed, "headers", EmptyDict), "Content-Type",
                             "application/json"))
        ELSE timed

\* rqst_kwargs as lines 116-120 leave them
RequestKwargs(rqst, fieldname) ==
    LET timed == IF fieldname = PyNone /\ ~FilesTruthy(rqst)
                 THEN SetDefault(rqst, "timeout", <<HTTP_CONNECT_TIMEOUT, HTTP_READ_TIMEOUT>>)
                 ELSE rqst
    IN  IF Truthy(Get(timed, "json", PyNone))
        THEN SetItem(timed, "headers", "Content-Type" :> "application/json")
        ELSE timed

\* how the transport answers: count times with status pre, then with resp
Transport(pre, count, resp) == [pre |-> pre, count |-> count, resp |-> resp]

\* a transport that gives the same answer to every attempt
Steady(resp) == Transport(resp.status, 0, resp)

\* the answer of the transport to attempt i
Answer(t, i) == IF i <= t.count THEN [t.resp EXCEPT !.status = t.pre] ELSE t.resp

\* Retry(total, status_forcelist, backoff_factor) is built without
\* allowed_methods and without raise_on_status: the adapter retries the
\* idempotent methods only, and raises once the budget is spent
RetryAllowedMethods == {"DELETE", "GET", "HEAD", "OPTIONS", "PUT", "TRACE"}

\* a variant in which the adapter hands the last response back once the
\* budget is spent (raise_on_status=False)
RaiseOnStatusOff == FALSE

RaiseOnStatus == TRUE

IsRetry(method, status, retry) ==
    method \in RetryAllowedMethods /\ status \in Range(retry)

\* attempt i of one session.request(...) through the mounted adapter, and
\* the attempts that follow it
RECURSIVE Attempt(_, _, _, _)
Attempt(method, retry, t, i) ==
    LET resp == Answer(t, i)
    IN  IF ~IsRetry(method, resp.status, retry)
        THEN [attempts |-> i, raised |-> FALSE, resp |-> resp]
        ELSE IF i > HTTP_MAX_RETRIES
        THEN [attempts |-> i, raised |-> RaiseOnStatus, resp |-> resp]
        ELSE Attempt(method, retry, t, i + 1)

\* self.session.request(method, url, ...): the attempts made, and the
\* response given back or the RetryError raised
session_request(method, retry, t) == Attempt(method, retry, t, 1)

\* how an invocation ended before request.wrap_actions was entered
Ended(o, res) ==
    [outcome |-> o, log |-> <<>>, prints |-> <<>>, result |-> res, mount |-> FALSE,
     attempts |-> 0, opens |-> 0, closes |-> 0, seen |-> <<>>]

\* how an invocation ended inside request.wrap_actions (the adapter is mounted)
Requested(o, log, prints, res, n, opens, seen) ==
    [outcome |-> o, log |-> log, prints |-> prints, result |-> res, mount |-> TRUE,
     attempts |-> n, opens |-> opens, closes |-> 0, seen |-> seen]

\* a variant of the dry-run branch that sends the request all the same
request_dry_sends(entry) ==
    Requested("returned", <<entry>>, <<entry>>, "Response", 1, 0, <<>>)

\* line 145: the dry-run branch prints and returns None
request_dry(entry) == Requested("returned", <<>>, <<entry>>, "None", 0, 0, <<>>)

\* Path.open(mode): the handle a file is read through
file_open(path, mode) ==
    IF mode = "rb" THEN "<_io.BufferedReader name='" \o path \o "'>"
    ELSE "<_io.TextIOWrapper name='" \o path \o "' mode='" \o mode \o "'>"

\* a variant of the with statement that closes the file after a normal
\* return only
with_open_leaks(r) ==
    [r EXCEPT !.closes = IF r.outcome = "returned" THEN r.opens ELSE 0]

\* line 128, with file.open("rb") as f: however the block is left, by
\* return or by an exception, the handle is closed
with_open(r) == [r EXCEPT !.closes = r.opens]

\* lines 125-143: the branch that talks to the service
request_live(method, entry, upload, ignore, retry, t, fileExists) ==
    LET sr == session_request(method, retry, t)
        resp == sr.resp
        opens == IF upload THEN 1 ELSE 0
        checked == resp.status \notin Range(ignore)
        block ==
            IF sr.raised
            THEN Requested("RetryError", <<entry>>, <<>>, "None", sr.attempts, opens, <<>>)
            ELSE IF ~upload /\ checked /\ api_error_check(resp)
            THEN Requested("APIException", <<entry>>, <<>>, "None", sr.attempts, opens, <<resp>>)
            ELSE IF checked /\ RaisesForStatus(resp.status)
            THEN Requested("HTTPError", <<entry>>, <<>>, "None", sr.attempts, opens, <<resp>>)
            ELSE Requested("returned", <<entry>>, <<>>, "Response", sr.attempts, opens, <<resp>>)
    IN  IF upload /\ ~fileExists
        THEN Requested("FileNotFoundError", <<>>, <<>>, "None", 0, 0, <<>>)
        ELSE IF upload THEN with_open(block)
        ELSE block

\* request(method).wrap_actions: what one call of
\* self.delete/get/patch/post/put does, given how the transport answers
\* and whether the upload file can be opened
request(method, args, kw, t, fileExists) ==
    LET ck == consume_kwargs(kw)
        fk == consume_func_kwargs(ck.func)
        fieldname == Get(ck.func, "file_upload", PyNone)
        rqst == RequestKwargs(ck.rqst, fieldname)
        entry == [method |-> method, args |-> args, kwargs |-> rqst]
        upload == fieldname # PyNone /\ FilesTruthy(rqst)
        \* line 129: the handle takes the place of the path
        sent == IF upload
                THEN [entry EXCEPT !.kwargs["files"][fieldname] = file_open(@, "rb")]
                ELSE entry
    IN  IF ~dry_run
        THEN request_live(method, sent, upload, fk.ignore, fk.retry, t, fileExists)
        ELSE request_dry(entry)

\* a variant of line 122 that mounts an adapter on a session that has none
\* and keeps the adapter of a session that has one
session_retry_once(kw) ==
    IF mounted # <<>> THEN mounted
    ELSE consume_func_kwargs(consume_kwargs(kw).func).retry

\* the adapter request.wrap_actions mounts on the session (line 122)
session_retry(kw) == consume_func_kwargs(consume_kwargs(kw).func).retry

-----------------------------------------------------------------------------
(* decorators.py: paginate *)

\* the keyword arguments a caller may give a list operation
ListKwargs ==
    { Opt("limit", l, pl) @@ Opt("starting_after", s, ps) @@ Opt("direction", d, pd) :
        l \in 1..MaxLimit, s \in 0..MaxRecords, d \in {"asc", "desc"},
        pl \in BOOLEAN, ps \in BOOLEAN, pd \in BOOLEAN }

\* a variant of lines 69-74 whose default direction is "desc"
PaginateDefaultsDesc(kw) ==
    LET limit == Get(kw, "limit", DefaultLimit)
        starting_after == Get(kw, "starting_after", DefaultStartingAfter)
        direction == Get(kw, "direction", "desc")
    IN  SetDefault(SetDefault(SetDefault(kw, "limit", limit),
                              "starting_after", starting_after),
                   "direction", direction)

\* lines 69-74: the defaults of limit, starting_after and direction
PaginateDefaults(kw) ==
    LET limit == Get(kw, "limit", DefaultLimit)
        starting_after == Get(kw, "starting_after", DefaultStartingAfter)
        direction == Get(kw, "direction", "asc")
    IN  SetDefault(SetDefault(SetDefault(kw, "limit", limit),
                              "starting_after", starting_after),
                   "direction", direction)

\* the JSON response of the service to a GET of the list with kwargs kw
PageResponse(list, kw, flag) ==
    LET pg == ServerPage(list, kw)
    IN  [status |-> 200, errors |-> FALSE, data |-> pg.data, has_more |-> flag,
         start |-> pg.start]

\* line 83: the cursor after a page
NextCursor(objs) == objs[Len(objs)].id

\* a variant of line 84 with the default reversed: json_data.get("has_more", True)
HasMoreDefaultTrue(resp) == resp.has_more # "false"

\* line 84: json_data.get("has_more", False)
HasMore(resp) == resp.has_more = "true"

\* a variant of lines 86-87 that walks the page backwards: reversed(objects)
YieldReversed(objs) == Reverse(objs)

\* lines 86-87: the objects of a page, in the order they are yielded
YieldOrder(objs) == objs

\* lines 78-89: one turn of the while loop, up to its first yield
Fetch(kw) ==
    /\ Len(served) < MaxFetches
    /\ \E flag \in HasMoreValues :
         LET resp == PageResponse(serverList, kw, flag)
             r == request("GET", <<>>, kw, Steady(resp), TRUE)
             objs == resp.data
         IN  /\ httpLog' = httpLog \o r.log
             /\ printed' = printed \o r.prints
             /\ mounted' = session_retry(kw)
             /\ attempts' = attempts + r.attempts
             /\ opened' = opened + r.opens
             /\ closed' = closed + r.closes
             /\ served' = Append(served, resp)
             /\ IF objs # <<>>
                THEN /\ kwargs' = SetItem(kw, "starting_after", NextCursor(objs))
                     /\ paginate' = HasMore(resp)
                     /\ yielded' = Append(yielded, Head(YieldOrder(objs)))
                     /\ objects' = Tail(YieldOrder(objs))
                     /\ gen' = "suspended"
                ELSE /\ kwargs' = kw
                     /\ paginate' = FALSE
                     /\ objects' = <<>>
                     /\ gen' = "done"
                     /\ UNCHANGED yielded

\* a paginated list operation is called: method_params finds nothing to
\* validate for list_all and the generator object is returned; none of
\* paginate.wrap_actions runs before the first next()
ListAll ==
    /\ phase = "idle"
    /\ \E kw \in ListKwargs, list \in ServerLists :
         /\ call' = [cls |-> "Devices", fn |-> "list_all", args |-> <<>>, kwargs |-> kw]
         /\ kwargs' = kw
         /\ serverList' = list
    /\ phase' = "listing"
    /\ gen' = "created"
    /\ outcome' = "returned"
    /\ result' = "generator"
    /\ UNCHANGED <<dry_run, httpLog, printed, paginate, objects, yielded, served, mounted,
                   transport, attempts, opened, closed,
                   earlier, status_lists, disk>>

\* a variant of the first next() without the dry-run test of line 76
GenFirstNoDryRun ==
    /\ gen = "created"
    /\ Fetch(PaginateDefaults(kwargs))
    /\ UNCHANGED <<dry_run, phase, call, outcome, result, serverList, transport,
                   earlier, status_lists, disk>>

\* the consumer's first next(): lines 68-74, then the first fetch, or in
\* dry-run mode the one non-executing get
GenFirst ==
    /\ gen = "created"
    /\ LET kw == PaginateDefaults(kwargs)
       IN  IF ~dry_run
           THEN Fetch(kw)
           ELSE LET r == request("GET", <<>>, kw, transport, TRUE)
                IN  /\ httpLog' = httpLog \o r.log
                    /\ printed' = printed \o r.prints
                    /\ mounted' = session_retry(kw)
                    /\ kwargs' = kw
                    /\ gen' = "done"
                    /\ attempts' = attempts + r.attempts
                    /\ opened' = opened + r.opens
                    /\ closed' = closed + r.closes
                    /\ UNCHANGED <<paginate, objects, yielded, served>>
    /\ UNCHANGED <<dry_run, phase, call, outcome, result, serverList, transport,
                   earlier, status_lists, disk>>

\* a later next(): the next object of the page, or the next turn of the loop
GenYield ==
    /\ gen = "suspended"
    /\ objects # <<>>
    /\ yielded' = Append(yielded, Head(objects))
    /\ objects' = Tail(objects)
    /\ UNCHANGED <<dry_run, phase, call, outcome, result, httpLog, printed, serverList,
                   gen, kwargs, paginate, served, mounted, transport, attempts, opened,
                   closed,
                   earlier, status_lists, disk>>

\* a variant of the loop that fetches the next page while objects of the
\* current page are still to be yielded
GenFetchAhead ==
    /\ gen = "suspended"
    /\ paginate
    /\ Fetch(kwargs)
    /\ UNCHANGED <<dry_run, phase, call, outcome, result, serverList, transport,
                   earlier, status_lists, disk>>

GenFetch ==
    /\ gen = "suspended"
    /\ objects = <<>>
    /\ paginate
    /\ Fetch(kwargs)
    /\ UNCHANGED <<dry_run, phase, call, outcome, result, serverList, transport,
                   earlier, status_lists, disk>>

GenStop ==
    /\ gen = "suspended"
    /\ objects = <<>>
    /\ ~paginate
    /\ gen' = "done"
    /\ UNCHANGED <<dry_run, phase, call, outcome, result, httpLog, printed, serverList,
                   kwargs, paginate, objects, yielded, served, mounted,
                   transport, attempts, opened, closed,
                   earlier, status_lists, disk>>

-----------------------------------------------------------------------------
(* validators.py *)

\* str == list in Python: a str never equals a list
StrEqualsList(s, l) == FALSE

\* line 61, `kwarg in inc_params`: inc_params is a tuple of lists of names
KwargInIncParams(kwarg, inc_params) ==
    \E i \in 1..Len(inc_params) : StrEqualsList(kwarg, inc_params[i])

\* _generate_bad_combinations: for each group p, the combinations of
\* len(p) - 1 of its names
generate_bad_combinations(params) ==
    UNION { {c \in SUBSET Range(params[i]) : Cardinality(c) = Len(params[i]) - 1}
              : i \in 1..Len(params) }

\* validate_required raises TypeError
validate_required(kw, req_params) ==
    \E i \in 1..Len(req_params) : req_params[i] \notin DOMAIN kw

\* a variant of validate_any with all() in place of any(): it raises unless
\* every member of the group is supplied
validate_any_all(kw, any_params) ==
    \E i \in 1..Len(any_params) : any_params[i] \notin DOMAIN kw

\* validate_any raises TypeError
validate_any(kw, any_params) ==
    ~ \E i \in 1..Len(any_params) : any_params[i] \in DOMAIN kw

\* validate_incompatible raises AttributeError
validate_incompatible(kw, inc_params) ==
    LET bad_combos == generate_bad_combinations(inc_params)
    IN  \E kwarg \in DOMAIN kw : \E combo \in bad_combos : \E bad_kwarg \in combo :
            /\ bad_kwarg \in DOMAIN kw
            /\ KwargInIncParams(kwarg, inc_params)
            /\ bad_kwarg # kwarg

\* line 73: the test validate_param_opts applies to one value
BadOption(value, values) == Truthy(value) /\ value \notin values

\* validate_param_opts raises ValueError
validate_param_opts(kw, val_params) ==
    \E param \in DOMAIN val_params :
        BadOption(Get(kw, param, PyNone), val_params[param])

Digits == {"0", "1", "2", "3", "4", "5", "6", "7", "8", "9"}

\* all(n.isdigit() for n in s)
AllDigits(s) == \A i \in 1..Len(s) : SubSeq(s, i, i) \in Digits

\* validate_pin(param, length).wrapper_b: "ValueError" when it raises and
\* "None" when it returns; the decorated function is never called
validate_pin(param, length, kw) ==
    LET p == Get(Get(kw, "params", EmptyDict), param, PyNone)
    IN  IF Truthy(p) /\ (Len(p) # length \/ ~AllDigits(p))
        THEN "ValueError"
        ELSE "None"

\* validate_package: "FileNotFoundError", "PackageNotSigned" or "ok"
validate_package(fileExists, signed) ==
    IF ~fileExists THEN "FileNotFoundError"
    ELSE IF ~signed THEN "PackageNotSigned"
    ELSE "ok"

-----------------------------------------------------------------------------
(* endpoints: the method tables *)

\* a table entry; an absent key is an empty list, dict or None
Conf(req, any, inc, val, file) ==
    [req_params |-> req, any_params |-> any, inc_params |-> inc,
     validate |-> val, file_param |-> file]

EmptyConf == Conf(<<>>, <<>>, <<>>, EmptyDict, PyNone)

Devices_method_kwargs ==
    "list_all" :> EmptyConf
    @@ "retrieve" :> EmptyConf
    @@ "create" :> Conf(<<"name">>, <<>>, <<>>, EmptyDict, PyNone)
    @@ "update" :> Conf(<<>>, <<"device_name", "name">>, <<>>, EmptyDict, PyNone)
    @@ "delete_user" :> Conf(<<"user_id">>, <<>>, <<>>, EmptyDict, PyNone)
    @@ "reboot" :> Conf(<<>>, <<>>, <<>>,
                        "rebuild_kernel_cache" :> {PyTrue, PyFalse}
                        @@ "notify_user" :> {PyTrue, PyFalse}, PyNone)
    @@ "lock" :> EmptyConf
    @@ "set_admin_password" :> Conf(<<"new_password">>, <<>>, <<>>, EmptyDict, PyNone)
    @@ "wipe" :> EmptyConf
    @@ "update_os" :> Conf(<<>>, <<>>, <<>>,
                           "os_update_mode" :> {"download_only", "force_update", "install_asap",
                                                "smart_update", "notify_only"}
                           @@ "version_type" :> {"latest_major_version", "latest_minor_version"},
                           PyNone)
    @@ "set_timezone" :> Conf(<<"time_zone">>, <<>>, <<>>, EmptyDict, PyNone)
    @@ "set_device_attributes" :> Conf(<<"attr_name", "value">>, <<>>, <<>>, EmptyDict, PyNone)
    @@ "set_multiple_device_attributes" :> Conf(<<"json">>, <<>>, <<>>, EmptyDict, PyNone)
    @@ "enable_lost_mode" :> Conf(<<>>, <<"message", "phone_number", "footnote">>, <<>>,
                                  EmptyDict, PyNone)

Apps_method_kwargs ==
    "list_all" :> EmptyConf
    @@ "create" :> Conf(<<>>, <<"app_store_id", "bundle_id", "binary">>,
                        << <<"app_store_id", "bundle_id", "binary">>,
                           <<"app_store_id", "bundle_id", "name">> >>,
                        EmptyDict, "binary")
    @@ "update" :> Conf(<<>>, <<"binary", "deploy_to", "name">>, <<>>,
                        "deploy_to" :> {"all", "none", "outdated"}, "binary")

Account_method_kwargs ==
    "update" :> Conf(<<>>, <<"name", "apple_store_country_code">>, <<>>, EmptyDict, PyNone)

PushCertificate_method_kwargs ==
    "update" :> Conf(<<"file">>, <<>>, <<>>, EmptyDict, "file")

Scripts_method_kwargs ==
    "list_all" :> EmptyConf
    @@ "create" :> Conf(<<"file", "name">>, <<>>, <<>>,
                        "variable_support" :> {"0", "1", PyZero, "<1>"}, "file")
    @@ "update" :> Conf(<<"file", "name">>, <<>>, <<>>,
                        "variable_support" :> {"0", "1", PyZero, "<1>"}, "file")

ScriptJobs_method_kwargs ==
    "list_all" :> EmptyConf
    @@ "create" :> Conf(<<"script_id">>, <<"device_ids", "group_ids", "assignment_group_ids">>,
                        <<>>, EmptyDict, PyNone)

\* self._method_kwargs of an instance of class cls
DeviceGroups_method_kwargs ==
    "list_all" :> EmptyConf
    @@ "assign_device" :> Conf(<<"device_id">>, <<>>, <<>>, EmptyDict, PyNone)
    @@ "set_group_attribute" :> Conf(<<"value">>, <<>>, <<>>, EmptyDict, PyNone)

method_kwargs(cls) ==
    CASE cls = "Devices" -> Devices_method_kwargs
      [] cls = "Apps" -> Apps_method_kwargs
      [] cls = "Account" -> Account_method_kwargs
      [] cls = "PushCertificate" -> PushCertificate_method_kwargs
      [] cls = "Scripts" -> Scripts_method_kwargs
      [] cls = "ScriptJobs" -> ScriptJobs_method_kwargs
      [] cls = "DeviceGroups" -> DeviceGroups_method_kwargs

-----------------------------------------------------------------------------
(* decorators.py: method_params and url_suffixes *)

\* the last index of "." in name, 0 when there is none
RECURSIVE RFindDot(_, _)
RFindDot(name, i) ==
    IF i = 0 THEN 0
    ELSE IF SubSeq(name, i, i) = "." THEN i
    ELSE RFindDot(name, i - 1)

\* Path(file).suffix, for a file name without directories
Suffix(name) ==
    LET i == RFindDot(name, Len(name))
    IN  IF 1 < i /\ i < Len(name) THEN SubSeq(name, i, Len(name)) ELSE ""

\* a variant of method_params that checks the signature of a .pkg whatever
\* the parameter it comes through
method_params_any_field(cls, fn_name, kw, fileExists, signed) ==
    LET conf == Get(method_kwargs(cls), fn_name, EmptyConf)
        file_param == conf.file_param
        file == IF file_param = PyNone THEN PyNone ELSE Get(kw, file_param, PyNone)
        pkg == IF Truthy(file) /\ Suffix(file) = ".pkg"
               THEN validate_package(fileExists, signed)
               ELSE "ok"
    IN  IF conf.req_params # <<>> /\ validate_required(kw, conf.req_params)
        THEN [err |-> "TypeError:required", kwargs |-> kw]
        ELSE IF conf.any_params # <<>> /\ validate_any(kw, conf.any_params)
        THEN [err |-> "TypeError:any", kwargs |-> kw]
        ELSE IF conf.inc_params # <<>> /\ validate_incompatible(kw, conf.inc_params)
        THEN [err |-> "AttributeError", kwargs |-> kw]
        ELSE IF DOMAIN conf.validate # {} /\ validate_param_opts(kw, conf.validate)
        THEN [err |-> "ValueError:value", kwargs |-> kw]
        ELSE IF pkg # "ok"
        THEN [err |-> pkg, kwargs |-> kw]
        ELSE IF ~FilesTruthy(kw) /\ Truthy(file)
        THEN [err |-> "ok",
              kwargs |-> DelItem(SetItem(SetItem(kw, "files", file_param :> file),
                                         "file_upload", file_param),
                                 file_param)]
        ELSE [err |-> "ok", kwargs |-> kw]

\* method_params.wrap_actions up to its call of fn: the error raised, or
\* "ok" and the kwargs fn is called with
method_params(cls, fn_name, kw, fileExists, signed) ==
    LET conf == Get(method_kwargs(cls), fn_name, EmptyConf)
        file_param == conf.file_param
        file == IF file_param = PyNone THEN PyNone ELSE Get(kw, file_param, PyNone)
        pkg == IF Truthy(file) /\ file_param = "binary" /\ Suffix(file) = ".pkg"
               THEN validate_package(fileExists, signed)
               ELSE "ok"
    IN  IF conf.req_params # <<>> /\ validate_required(kw, conf.req_params)
        THEN [err |-> "TypeError:required", kwargs |-> kw]
        ELSE IF conf.any_params # <<>> /\ validate_any(kw, conf.any_params)
        THEN [err |-> "TypeError:any", kwargs |-> kw]
        ELSE IF conf.inc_params # <<>> /\ validate_incompatible(kw, conf.inc_params)
        THEN [err |-> "AttributeError", kwargs |-> kw]
        ELSE IF DOMAIN conf.validate # {} /\ validate_param_opts(kw, conf.validate)
        THEN [err |-> "ValueError:value", kwargs |-> kw]
        ELSE IF pkg # "ok"
        THEN [err |-> pkg, kwargs |-> kw]
        ELSE IF ~FilesTruthy(kw) /\ Truthy(file)
        THEN [err |-> "ok",
              kwargs |-> DelItem(SetItem(SetItem(kw, "files", file_param :> file),
                                         "file_upload", file_param),
                                 file_param)]
        ELSE [err |-> "ok", kwargs |-> kw]

\* url_suffixes(sfx, params_as_suffixes).wrap_actions: the args fn is called with
url_suffixes(sfx, params_as_suffixes, args, kw) ==
    LET present == SelectSeq(params_as_suffixes, LAMBDA k : k \in DOMAIN kw)
        paths == Join(<<sfx>> \o [i \in 1..Len(present) |-> kw[present[i]]])
    IN  <<Join(args \o <<paths>>)>>

-----------------------------------------------------------------------------
(* endpoints: the operations.  decorators lists the decorators of the     *)
(* method, outermost first; the body calls self.<verb> with its args and   *)
(* kwargs, after setting the defaults it sets.                             *)

Operation(cls, fn, decorators, sfx, sfx_params, verb, defaults) ==
    [cls |-> cls, fn |-> fn, decorators |-> decorators, sfx |-> sfx,
     sfx_params |-> sfx_params, verb |-> verb, defaults |-> defaults]

Devices_create ==
    Operation("Devices", "create", <<"method_params">>, "", <<>>, "POST", EmptyDict)
Devices_update ==
    Operation("Devices", "update", <<"method_params">>, "", <<>>, "PATCH", EmptyDict)
Devices_delete_user ==
    Operation("Devices", "delete_user", <<"method_params", "url_suffixes">>,
              "users", <<"user_id">>, "DELETE", EmptyDict)
Devices_restart ==
    Operation("Devices", "restart", <<"method_params", "url_suffixes">>,
              "reboot", <<>>, "POST", EmptyDict)
Devices_lock ==
    Operation("Devices", "lock", <<"method_params", "validate_pin", "url_suffixes">>,
              "lock", <<>>, "POST", EmptyDict)
Devices_wipe ==
    Operation("Devices", "wipe", <<"method_params", "validate_pin", "url_suffixes">>,
              "wipe", <<>>, "POST", EmptyDict)
Devices_update_os ==
    Operation("Devices", "update_os", <<"method_params", "url_suffixes">>,
              "update_os", <<>>, "POST", EmptyDict)
Devices_set_device_attribute ==
    Operation("Devices", "set_device_attribute", <<"method_params", "url_suffixes">>,
              "custom_attribute_values", <<"attr_name">>, "GET", EmptyDict)
Devices_enable_lost_mode ==
    Operation("Devices", "enable_lost_mode", <<"method_params", "url_suffixes">>,
              "lost_mode", <<>>, "POST", EmptyDict)
Devices_clear_recovery_lock_password ==
    Operation("Devices", "clear_recovery_lock_password", <<"url_suffixes">>,
              "clear_recovery_lock_password", <<>>, "POST", EmptyDict)
DeviceGroups_assign_device ==
    Operation("DeviceGroups", "assign_device", <<"method_params", "url_suffixes">>,
              "devices", <<"device_id">>, "POST", EmptyDict)
Apps_create ==
    Operation("Apps", "create", <<"method_params">>, "", <<>>, "POST", EmptyDict)
Apps_update ==
    Operation("Apps", "update", <<"method_params">>, "", <<>>, "PATCH", EmptyDict)
Account_update ==
    Operation("Account", "update", <<"method_params">>, "", <<>>, "PATCH", EmptyDict)
PushCertificate_push_certificate_update ==
    Operation("PushCertificate", "push_certificate_update", <<"method_params">>,
              "", <<>>, "POST", EmptyDict)
Scripts_create ==
    Operation("Scripts", "create", <<"method_params">>, "", <<>>, "POST", EmptyDict)
ScriptJobs_create ==
    Operation("ScriptJobs", "create", <<"method_params">>, "", <<>>, "POST",
              "custom_attribute_regex" :> "\n")

Operations ==
    {Devices_create, Devices_update, Devices_delete_user, Devices_restart, Devices_lock,
     Devices_wipe, Devices_update_os, Devices_set_device_attribute,
     Devices_enable_lost_mode, Devices_clear_recovery_lock_password,
     DeviceGroups_assign_device, Apps_create, Apps_update, Account_update,
     PushCertificate_push_certificate_update, Scripts_create, ScriptJobs_create}

PinLength == 6

\* API_VERS is the default of api_vers in SimpleMDMConnector.__init__
API_VERS == "v1"

\* the default endpoint of the constructor of a resource class
endpoint(cls) ==
    CASE cls = "Devices" -> "devices"
      [] cls = "DeviceGroups" -> "device_groups"
      [] cls = "Apps" -> "apps"
      [] cls = "Account" -> "account"
      [] cls = "PushCertificate" -> "push_certificate"
      [] cls = "Scripts" -> "scripts"
      [] cls = "ScriptJobs" -> "script_jobs"
      [] OTHER -> ""

\* line 113 of decorators.py: url = generate_url(self, *args)
request_url(cls, args) == generate_url(API_VERS, endpoint(cls), args)

\* the positional arguments a method body passes to self.<verb>: its first
\* parameter, to which the bodies of clear_recovery_lock_password and
\* rotate_recovery_lock_password add the suffix themselves
body_args(op, args) ==
    IF op.cls = "Devices" /\ op.fn = "clear_recovery_lock_password"
    THEN <<args[1] \o "/" \o "clear_recovery_lock_password">>
    ELSE args

\* the kwargs left for **kwargs once the named parameters of the method
\* have taken theirs: assign_device(self, group_id, device_id, **kwargs)
bound_kwargs(op, kw) ==
    IF op.cls = "DeviceGroups" /\ op.fn = "assign_device"
    THEN DelItem(kw, "device_id")
    ELSE kw

\* kwargs.setdefault(k, v) for every default a method body sets
BodyKwargs(kw, defaults) ==
    [k \in DOMAIN kw \cup DOMAIN defaults |-> IF k \in DOMAIN kw THEN kw[k] ELSE defaults[k]]

\* a variant with the decorators applied the wrong way round: the body
\* runs first and the validators judge the call afterwards
InvokeThenValidate(op, args, kw, t, fileExists, signed) ==
    LET mp == IF "method_params" \in Range(op.decorators)
              THEN method_params(op.cls, op.fn, kw, fileExists, signed)
              ELSE [err |-> "ok", kwargs |-> kw]
        vp == validate_pin("pin", PinLength, kw)
        r == request(op.verb, args, BodyKwargs(kw, op.defaults), t, fileExists)
    IN  IF mp.err # "ok" THEN [r EXCEPT !.outcome = mp.err, !.result = "None"]
        ELSE IF "validate_pin" \in Range(op.decorators) /\ vp = "ValueError"
        THEN [r EXCEPT !.outcome = "ValueError:pin", !.result = "None"]
        ELSE r

\* one invocation of a resource operation with args and kw, through its
\* decorators, to the self.<verb>(...) call of its body
Invoke(op, args, kw, t, fileExists, signed) ==
    LET mp == IF "method_params" \in Range(op.decorators)
              THEN method_params(op.cls, op.fn, kw, fileExists, signed)
              ELSE [err |-> "ok", kwargs |-> kw]
        vp == validate_pin("pin", PinLength, mp.kwargs)
        args2 == IF "url_suffixes" \in Range(op.decorators)
                 THEN url_suffixes(op.sfx, op.sfx_params, args, mp.kwargs)
                 ELSE args
    IN  IF mp.err # "ok" THEN Ended(mp.err, "None")
        ELSE IF "validate_pin" \in Range(op.decorators)
        THEN IF vp = "ValueError" THEN Ended("ValueError:pin", "None")
             ELSE Ended("returned", "None")
        ELSE request(op.verb, body_args(op, args2),
                     BodyKwargs(bound_kwargs(op, mp.kwargs), op.defaults), t, fileExists)

-----------------------------------------------------------------------------
(* The callers of the operations, and the transport *)

\* the values a caller passes for a keyword parameter
ParamValues(param) ==
    CASE param = "rebuild_kernel_cache" -> {PyTrue, PyFalse, "bogus"}
      [] param = "os_update_mode" -> {"smart_update", "bogus", EmptyStr}
      [] param = "version_type" -> {"latest_major_version", "bogus"}
      [] param = "binary" -> {"a.pkg", "a.ipa"}
      [] param = "deploy_to" -> {"all", "none", "outdated", "bogus", EmptyStr, PyZero, PyNone}
      [] param = "variable_support" -> {"0", "1", PyZero, "2", EmptyStr}
      [] param = "file" -> {"s.sh", "s.pkg"}
      [] param = "notify_user" -> {PyTrue}
      [] param = "device_id" -> {"7"}
      [] OTHER -> {"v"}

\* the keyword parameters of an operation (the all_params of its docstring)
OperationParams(op) ==
    CASE op = Devices_create -> {"name", "group_id"}
      [] op = Devices_update -> {"device_name", "name"}
      [] op = Devices_delete_user -> {"user_id"}
      [] op = Devices_restart -> {"rebuild_kernel_cache", "notify_user"}
      [] op = Devices_update_os -> {"os_update_mode", "version_type"}
      [] op = Devices_set_device_attribute -> {"attr_name", "value"}
      [] op = Devices_enable_lost_mode -> {"message", "phone_number", "footnote"}
      [] op = Apps_create -> {"app_store_id", "bundle_id", "binary", "name"}
      [] op = Apps_update -> {"binary", "deploy_to", "name"}
      [] op = Account_update -> {"name", "apple_store_country_code"}
      [] op = PushCertificate_push_certificate_update -> {"file", "apple_id"}
      [] op = Scripts_create -> {"file", "name", "variable_support"}
      [] op = ScriptJobs_create -> {"script_id", "device_ids", "group_ids",
                                    "assignment_group_ids"}
      [] op = DeviceGroups_assign_device -> {"device_id"}
      [] OTHER -> {}

\* every choice of some of the parameters, each with one of its values
AllKwargs(params) ==
    UNION { {kw \in [S -> UNION {ParamValues(k) : k \in S}] :
                \A k \in S : kw[k] \in ParamValues(k)} : S \in SUBSET params }

MaxPinLen == 7       \* longest pin a caller passes

PinBase == "123456789"

\* pins of every length up to MaxPinLen, all digits or with one letter
Pins ==
    LET digits(n) == SubSeq(PinBase, 1, n)
        letter(n, i) == SubSeq(PinBase, 1, i - 1) \o "a" \o SubSeq(PinBase, i + 1, n)
    IN  {digits(n) : n \in 0..MaxPinLen}
        \cup UNION { {letter(n, i) : i \in 1..n} : n \in 1..MaxPinLen }

StatusValues == {200, 404, 500}

\* the response of the transport to a request that is no page fetch
CallResponse(status, errors) ==
    [status |-> status, errors |-> errors, data |-> <<>>, has_more |-> "absent",
     start |-> 0]

\* Path.exists() of the file a call names, and what pkgutil finds in it
Disk(exists, signed) == [exists |-> exists, signed |-> signed]

\* what one invocation leaves behind
Invoked(op, args, kw, t, fileExists, signed) ==
    LET r == Invoke(op, args, kw, t, fileExists, signed)
    IN  /\ call' = [cls |-> op.cls, fn |-> op.fn, args |-> args, kwargs |-> kw]
        /\ outcome' = r.outcome
        /\ result' = r.result
        /\ httpLog' = r.log
        /\ printed' = r.prints
        /\ served' = r.seen
        /\ mounted' = IF r.mount THEN session_retry(kw) ELSE mounted
        /\ transport' = t
        /\ attempts' = r.attempts
        /\ opened' = r.opens
        /\ closed' = r.closes
        /\ disk' = Disk(fileExists, signed)
        /\ phase' = "called"
        /\ UNCHANGED <<dry_run, serverList, gen, kwargs, paginate, objects, yielded,
                   earlier, status_lists>>

PositionalArgs(op) ==
    IF op \in {Devices_create, Apps_create, Account_update,
               PushCertificate_push_certificate_update, Scripts_create, ScriptJobs_create}
    THEN <<>>
    ELSE <<"42">>

\* a caller invokes an operation with keyword arguments
Call ==
    /\ phase = "idle"
    /\ \E op \in Operations \ {Devices_lock, Devices_wipe} :
       \E kw \in AllKwargs(OperationParams(op)) :
       \E status \in StatusValues, errors \in BOOLEAN, fileExists \in BOOLEAN,
          signed \in BOOLEAN :
            \* a call that names no file does not look at the disk, and a
            \* file that is not there is no signed package
            /\ (DOMAIN kw \cap {"binary", "file"} = {}) => (fileExists /\ signed)
            /\ signed => fileExists
            /\ Invoked(op, PositionalArgs(op), kw, Steady(CallResponse(status, errors)),
                    fileExists, signed)

\* a caller invokes lock or wipe, with a pin, with a params dict holding a
\* pin, with both or with neither
CallWithPin ==
    /\ phase = "idle"
    /\ \E op \in {Devices_lock, Devices_wipe} :
       \E hasPin \in BOOLEAN, hasParams \in BOOLEAN, p \in Pins, q \in Pins :
       \E status \in StatusValues, errors \in BOOLEAN :
            Invoked(op, PositionalArgs(op),
                    Opt("pin", p, hasPin) @@ Opt("params", "pin" :> q, hasParams),
                    Steady(CallResponse(status, errors)), TRUE, TRUE)

MaxTransient == 4    \* most transient answers before the transport's last answer

\* the five request methods of SimpleMDMConnector
Verbs == {"DELETE", "GET", "PATCH", "POST", "PUT"}

\* the keyword arguments a caller of a request method passes: status lists
\* for the call, a params dict, a query parameter, a json body, an upload
VerbKwargs(ign, rty, hasParams, hasName, body) ==
    Opt("ignore_statuses", ign, ign # <<>>)
    @@ Opt("retry_statuses", rty, rty # <<>>)
    @@ Opt("params", "a" :> "1", hasParams)
    @@ Opt("name", "v", hasName)
    @@ Opt("json", "body", body = "json")
    @@ Opt("files", "file" :> "s.sh", body = "upload")
    @@ Opt("file_upload", "file", body = "upload")

\* a caller invokes self.delete/get/patch/post/put; the transport answers
\* 503 a number of times and then gives its last answer
CallVerb ==
    /\ phase = "idle"
    /\ \E verb \in Verbs, ign \in {<<>>, <<404>>, <<503>>}, rty \in {<<>>, <<404>>},
          hasParams \in BOOLEAN, hasName \in BOOLEAN, body \in {"none", "json", "upload"},
          count \in 0..MaxTransient, status \in StatusValues \cup {503},
          errors \in BOOLEAN, fileExists \in BOOLEAN :
         LET kw == VerbKwargs(ign, rty, hasParams, hasName, body)
             t == Transport(503, count, CallResponse(status, errors))
             r == request(verb, <<"42">>, kw, t, fileExists)
         IN  /\ body # "upload" => fileExists
             /\ call' = [cls |-> "SimpleMDMConnector", fn |-> verb, args |-> <<"42">>,
                         kwargs |-> kw]
             /\ outcome' = r.outcome
             /\ result' = r.result
             /\ httpLog' = r.log
             /\ printed' = r.prints
             /\ served' = r.seen
             /\ mounted' = session_retry(kw)
             /\ transport' = t
             /\ attempts' = r.attempts
             /\ opened' = r.opens
             /\ closed' = r.closes
             /\ disk' = Disk(fileExists, fileExists)
    /\ phase' = "verb"
    /\ UNCHANGED <<dry_run, serverList, gen, kwargs, paginate, objects, yielded,
                   earlier, status_lists>>

\* the transport keyword arguments a caller of a request method passes: a
\* timeout, headers, a json body (None and "" are falsy), a files mapping
\* (empty or not) and the field that designates the upload
TransportKwargs(tmo, hdr, body, files, field) ==
    Opt("timeout", <<1, 2>>, tmo)
    @@ Opt("headers", IF hdr = "type" THEN "Content-Type" :> "text/plain" ELSE "X-A" :> "1",
           hdr # "none")
    @@ Opt("json", body, body # "absent")
    @@ Opt("files", IF files = "empty" THEN EmptyDict ELSE "file" :> "s.sh", files # "none")
    @@ Opt("file_upload", "file", field)

\* a caller invokes self.get or self.post with transport keyword arguments
CallTransport ==
    /\ phase = "idle"
    /\ \E verb \in {"GET", "POST"}, tmo \in BOOLEAN, hdr \in {"none", "type", "other"},
          body \in {"absent", "body", PyNone, EmptyStr},
          files \in {"none", "empty", "file"}, field \in BOOLEAN,
          status \in {200, 404}, fileExists \in BOOLEAN :
         LET kw == TransportKwargs(tmo, hdr, body, files, field)
             t == Steady(CallResponse(status, FALSE))
             r == request(verb, <<"42">>, kw, t, fileExists)
         IN  /\ (files # "file" \/ ~field) => fileExists
             /\ call' = [cls |-> "SimpleMDMConnector", fn |-> verb, args |-> <<"42">>,
                         kwargs |-> kw]
             /\ outcome' = r.outcome
             /\ result' = r.result
             /\ httpLog' = r.log
             /\ printed' = r.prints
             /\ served' = r.seen
             /\ mounted' = session_retry(kw)
             /\ transport' = t
             /\ attempts' = r.attempts
             /\ opened' = r.opens
             /\ closed' = r.closes
             /\ disk' = Disk(fileExists, fileExists)
    /\ phase' = "sent"
    /\ UNCHANGED <<dry_run, serverList, gen, kwargs, paginate, objects, yielded,
                   earlier, status_lists>>

MaxCalls == 3        \* most calls made on one client, one after the other

\* a caller invokes self.get on a client, for the first time or after other
\* calls, each time with the status lists of that call
SessionCall ==
    /\ phase \in {"idle", "session"}
    /\ phase = "session" => Len(earlier) + 1 < MaxCalls
    /\ \E ign \in {<<>>, <<404>>}, rty \in {<<>>, <<404>>}, status \in {200, 404} :
         LET kw == VerbKwargs(ign, rty, FALSE, FALSE, "none")
             t == Steady(CallResponse(status, FALSE))
             r == request("GET", <<"42">>, kw, t, TRUE)
         IN  /\ call' = [cls |-> "SimpleMDMConnector", fn |-> "GET", args |-> <<"42">>,
                         kwargs |-> kw]
             /\ outcome' = r.outcome
             /\ result' = r.result
             /\ httpLog' = r.log
             /\ printed' = r.prints
             /\ served' = r.seen
             /\ mounted' = session_retry(kw)
             /\ transport' = t
             /\ attempts' = r.attempts
             /\ opened' = r.opens
             /\ closed' = r.closes
             /\ status_lists' = status_lists_after(consume_kwargs(kw).func)
    /\ earlier' = IF phase = "idle" THEN <<>> ELSE Append(earlier, call.kwargs)
    /\ phase' = "session"
    /\ UNCHANGED <<dry_run, serverList, gen, kwargs, paginate, objects, yielded, disk>>

-----------------------------------------------------------------------------
(* __init__.py: the session and its credential.  A token value is a str   *)
(* or a Path, or None when the caller or the environment gives none.      *)

TokenValue(kind, text) == [kind |-> kind, text |-> text]

NoToken == TokenValue("None", "")

DEFAULT_AUTH_TOKEN_PATH == TokenValue("Path", "/var/root/simplemdm_token")

\* bool(tkn)
TokenTruthy(v) == v.kind = "Path" \/ (v.kind = "str" /\ v.text # "")

\* line 30: getenv("SIMPLEMDM_TOKEN", DEFAULT_AUTH_TOKEN_PATH)
ClassToken(env) == IF env.kind = "None" THEN DEFAULT_AUTH_TOKEN_PATH ELSE env

Whitespace == {" ", "\n", "\t"}

\* str.strip()
RECURSIVE Strip(_)
Strip(s) ==
    IF s = "" THEN s
    ELSE IF SubSeq(s, 1, 1) \in Whitespace THEN Strip(SubSeq(s, 2, Len(s)))
    ELSE IF SubSeq(s, Len(s), Len(s)) \in Whitespace THEN Strip(SubSeq(s, 1, Len(s) - 1))
    ELSE s

\* _read_token(tkn), given whether Path(tkn) is an existing file and what
\* the file holds: the error raised, or "returned" and the token
read_token(tkn, isFile, contents) ==
    IF isFile
    THEN \* tkn.open("rb", encoding="utf-8"): a str has no open, and a Path
         \* refuses an encoding in binary mode
         IF tkn.kind = "str" THEN [outcome |-> "AttributeError", token |-> "None"]
         ELSE [outcome |-> "ValueError", token |-> "None"]
    ELSE \* tkn.strip(): a Path has no strip
         IF tkn.kind = "str" THEN [outcome |-> "returned", token |-> Strip(tkn.text)]
         ELSE [outcome |-> "AttributeError", token |-> "None"]

\* __init__ and _initialise_session: the username of session.auth (the
\* password is ""), or the error that ends the construction
initialise_session(tkn, env, isFile, contents) ==
    read_token(IF TokenTruthy(tkn) THEN tkn ELSE ClassToken(env), isFile, contents)

TokenTexts == {"tok", " tok\n", "/etc/tkn"}

\* what a caller passes as tkn, and what SIMPLEMDM_TOKEN holds
TokenArgs ==
    {NoToken} \cup {TokenValue(k, x) : k \in {"str", "Path"}, x \in TokenTexts}

EnvTokens == {NoToken} \cup {TokenValue("str", x) : x \in TokenTexts \cup {""}}

\* a client object is constructed
Connect ==
    /\ phase = "idle"
    /\ \E tkn \in TokenArgs, env \in EnvTokens, isFile \in BOOLEAN,
          contents \in TokenTexts :
         LET r == initialise_session(tkn, env, isFile, contents)
         IN  /\ call' = [cls |-> "SimpleMDMConnector", fn |-> "__init__", args |-> <<>>,
                         kwargs |-> [tkn |-> tkn, env |-> env, is_file |-> isFile,
                                     contents |-> contents]]
             /\ outcome' = r.outcome
             /\ result' = r.token
    /\ phase' = "connected"
    /\ UNCHANGED <<dry_run, httpLog, printed, serverList, gen, kwargs, paginate, objects,
                   yielded, served, mounted, transport, attempts, opened, closed,
                   earlier, status_lists, disk>>

MaxSegments == 4     \* most path segments a caller joins

Bases == {BASE_URL, "https:///h/"}

Segments == {"v1", "devices", "42", "profiles", "a/", "2,3", ""}

\* a caller joins path segments to a base URL
BuildUrl ==
    /\ phase = "idle"
    /\ \E base \in Bases, n \in 0..MaxSegments :
       \E segs \in [1..n -> Segments] :
            /\ call' = [cls |-> "utils", fn |-> "urljoin", args |-> segs,
                        kwargs |-> "base" :> base]
            /\ result' = urljoin(segs, base)
    /\ outcome' = "returned"
    /\ phase' = "joined"
    /\ UNCHANGED <<dry_run, httpLog, printed, serverList, gen, kwargs, paginate, objects,
                   yielded, served, mounted, transport, attempts, opened, closed,
                   earlier, status_lists, disk>>

-----------------------------------------------------------------------------

Init ==
    /\ dry_run \in BOOLEAN
    /\ phase = "idle"
    /\ call = [cls |-> "", fn |-> "", args |-> <<>>, kwargs |-> EmptyDict]
    /\ outcome = "pending"
    /\ result = "None"
    /\ httpLog = <<>>
    /\ printed = <<>>
    /\ serverList = <<>>
    /\ gen = "none"
    /\ kwargs = EmptyDict
    /\ paginate = TRUE
    /\ objects = <<>>
    /\ yielded = <<>>
    /\ served = <<>>
    /\ mounted = <<>>
    /\ transport = Steady(CallResponse(200, FALSE))
    /\ attempts = 0
    /\ opened = 0
    /\ closed = 0
    /\ earlier = <<>>
    /\ disk = Disk(TRUE, TRUE)
    /\ status_lists = [ignore |-> HTTP_IGNORE_STATUS_ERR, retry |-> HTTP_RETRY_STATUS_LIST]

Next ==
    \/ Call
    \/ CallWithPin
    \/ CallVerb
    \/ CallTransport
    \/ SessionCall
    \/ BuildUrl
    \/ Connect
    \/ ListAll
    \/ GenFirst
    \/ GenYield
    \/ GenFetch
    \/ GenStop

Spec == Init /\ [][Next]_vars

-----------------------------------------------------------------------------
(* What a pagination run is expected to deliver *)

\* the kwargs of the first fetch
FirstKwargs == PaginateDefaults(call.kwargs)

\* the records of the service's list after the caller's cursor, in the
\* order the service sorts them
ExpectedList ==
    LET ordered == Ordered(serverList, FirstKwargs["direction"])
        pos == CursorPos(ordered, FirstKwargs["starting_after"])
    IN  SubSeq(ordered, pos + 1, Len(ordered))

\* the number of pages the list is cut into, and page k
NumPages ==
    LET n == Len(ExpectedList)
        l == FirstKwargs["limit"]
    IN  IF n = 0 THEN 1 ELSE (n + l - 1) \div l

ExpectedPage(k) ==
    LET l == FirstKwargs["limit"]
    IN  SubSeq(ExpectedList, (k - 1) * l + 1, Min(k * l, Len(ExpectedList)))

\* the responses received so far are the pages of the list, in order: each
\* non-final page with has_more true, the final page with has_more false
ServedInPages ==
    \A i \in 1..Len(served) :
        /\ i <= NumPages
        /\ served[i].data = ExpectedPage(i)
        /\ served[i].has_more = (IF i < NumPages THEN "true" ELSE "false")

ServedData == Flatten([i \in 1..Len(served) |-> served[i].data])

\* the starting_after parameter sent with fetch n
CursorSent(n) == httpLog[n].kwargs["params"]["starting_after"]

\* the ids the service has returned so far
ReturnedIds ==
    {ServedData[i].id : i \in 1..Len(ServedData)} \ {NoneId}

\* a response after which the paginator is to stop
Terminal(resp) == resp.data = <<>> \/ resp.has_more # "true"

-----------------------------------------------------------------------------
(* Claims about pagination *)

\* C1: when the service serves its list in pages (each non-final page
\* non-empty with has_more true, the final page with has_more false), the
\* records yielded are always a prefix of the list, and once the generator
\* is exhausted they are exactly the list, every record once and in the
\* service's order, after exactly one fetch per page.
C1_YieldsEveryRecordInOrder ==
    (gen \in {"suspended", "done"} /\ ~dry_run /\ ServedInPages) =>
        /\ IsPrefix(yielded, ExpectedList)
        /\ gen = "done" =>
             /\ yielded = ExpectedList
             /\ Len(served) = NumPages
             /\ Len(httpLog) = NumPages

\* C1 witness: pages [{id 1},{id 2}] (has_more true) and [{id 3}] (has_more
\* false) were served and ids 1, 2, 3 were yielded after two fetches.
C1_Witness ==
    /\ gen = "done" /\ ~dry_run /\ ServedInPages
    /\ [i \in 1..Len(yielded) |-> yielded[i].id] = <<1, 2, 3>>
    /\ Len(httpLog) = 2
    /\ CursorSent(2) = 2

\* C2: the cursor sent with fetch n+1 is the id of the last record fetch n
\* returned, and every cursor is the caller's starting value or the id of
\* a record actually returned, never an absent id.
C2_CursorIsReturnedId ==
    /\ \A n \in 2..Len(httpLog) :
         LET prev == served[n - 1].data
         IN  /\ CursorSent(n) = prev[Len(prev)].id
             /\ CursorSent(n) \in ReturnedIds
    /\ gen \in {"suspended", "done"} =>
         kwargs["starting_after"] \in {FirstKwargs["starting_after"]} \cup ReturnedIds

\* C3: a response with an empty result list, or whose has_more is false or
\* absent, is the last response of the run: no fetch follows it, and the
\* records yielded end with the records of that page.
C3_StopsAfterTerminalPage ==
    ~dry_run =>
      \A i \in 1..Len(served) :
        Terminal(served[i]) =>
            /\ i = Len(served)
            /\ Len(httpLog) = i
            /\ IsPrefix(yielded, ServedData)
            /\ gen = "done" => yielded = ServedData

\* C3 witness: the second response had no has_more flag, its records were
\* yielded and the generator is exhausted.
C3_Witness ==
    /\ gen = "done" /\ ~dry_run
    /\ Len(served) = 2
    /\ served[2].has_more = "absent"
    /\ served[2].data # <<>>
    /\ yielded = ServedData

\* C4: a run over a finite, unmutated list fetches no page twice and makes
\* finitely many fetches: at most one per record, and a last one.
C4_FiniteNoPageTwice ==
    /\ \A i, j \in 1..Len(served) : i # j => served[i].start # served[j].start
    /\ Len(served) <= Len(serverList) + 1

-----------------------------------------------------------------------------
(* What the method tables declare for the operation that was called *)

\* the key of the table entry that describes an operation
DeclaredKey(fn) ==
    CASE fn = "set_device_attribute" -> "set_device_attributes"
      [] fn = "push_certificate_update" -> "update"
      [] fn = "restart" -> "reboot"
      [] OTHER -> fn

\* the table entry that describes the operation called
Declared ==
    IF call.cls = "" THEN EmptyConf
    ELSE Get(method_kwargs(call.cls), DeclaredKey(call.fn), EmptyConf)

\* the table entry method_params looks up for the operation called
LookedUp ==
    IF call.cls = "" THEN EmptyConf
    ELSE Get(method_kwargs(call.cls), call.fn, EmptyConf)

Supplied(names) == Range(names) \cap DOMAIN call.kwargs

RequiredSupplied(conf) == Supplied(conf.req_params) = Range(conf.req_params)

ValidPin(p) == Len(p) = PinLength /\ AllDigits(p)

-----------------------------------------------------------------------------
(* Claims about the parameter validators *)

\* C5: an operation whose method table declares required parameters,
\* invoked without one of them, raises the missing-required-parameter
\* TypeError, and no request has been issued when it does.
C5_MissingRequiredRaises ==
    (phase = "called" /\ ~RequiredSupplied(Declared)) =>
        (outcome = "TypeError:required" /\ httpLog = <<>>)

\* C6: a call that supplies two distinct parameters of one declared
\* incompatibility group raises the incompatible-parameters AttributeError;
\* a call that supplies at most one parameter of every group does not.
C6_IncompatibleRaises ==
    (phase = "called" /\ Declared.inc_params # <<>>) =>
        LET groups == Declared.inc_params
            two(i) == Cardinality(Supplied(groups[i])) >= 2
        IN  /\ (\E i \in 1..Len(groups) : two(i)) => outcome = "AttributeError"
            /\ (\A i \in 1..Len(groups) : ~two(i)) => outcome # "AttributeError"

\* C7: for an operation with a declared "at least one of" group whose
\* required parameters are supplied, supplying no member of the group
\* raises the missing-any-of-set TypeError before any request, and
\* supplying one member or more passes that check.
C7_AtLeastOneOf ==
    (phase = "called" /\ Declared.any_params # <<>> /\ RequiredSupplied(Declared)) =>
        /\ Supplied(Declared.any_params) = {} =>
             (outcome = "TypeError:any" /\ httpLog = <<>> /\ printed = <<>>)
        /\ Supplied(Declared.any_params) # {} => outcome # "TypeError:any"

\* C7 witness: Devices.update was called with both members of its group
\* (device_name and name, not declared incompatible) and the call went
\* through to one request.
C7_Witness ==
    /\ phase = "called" /\ call.cls = "Devices" /\ call.fn = "update"
    /\ Supplied(Declared.any_params) = {"device_name", "name"}
    /\ outcome = "returned"
    /\ Len(httpLog) = 1

\* C8: when the enumerated-value validator is reached, a parameter present
\* with a value outside its allowed set raises the invalid-enumerated-value
\* ValueError, whatever the value (the empty string, 0 and None included),
\* and a call whose validated parameters all hold allowed values does not.
C8_EnumeratedValueRaises ==
    (phase = "called"
       /\ outcome \notin {"TypeError:required", "TypeError:any", "AttributeError"}) =>
        LET allowed == LookedUp.validate
            bad(p) == p \in DOMAIN call.kwargs /\ call.kwargs[p] \notin allowed[p]
        IN  /\ (\E p \in DOMAIN allowed : bad(p)) => outcome = "ValueError:value"
            /\ (\A p \in DOMAIN allowed : ~bad(p)) => outcome # "ValueError:value"

\* C9: Devices.lock and Devices.wipe called with pin=... raise the
\* invalid-pin-format ValueError when the pin is not exactly 6 digits, and
\* do not raise it when it is.
C9_BadPinRaises ==
    (phase = "called" /\ call.fn \in {"lock", "wipe"}
       /\ DOMAIN call.kwargs = {"pin"}) =>
        /\ ~ValidPin(call.kwargs["pin"]) => outcome = "ValueError:pin"
        /\ ValidPin(call.kwargs["pin"]) => outcome # "ValueError:pin"

\* C10: outside dry-run mode an operation that returns has issued exactly
\* one request and returns its response; for Devices.lock and Devices.wipe
\* that request is a POST to .../devices/{device_id}/lock (resp. /wipe).
C10_ExactlyOneRequest ==
    (phase = "called" /\ ~dry_run /\ outcome = "returned") =>
        /\ Len(httpLog) = 1
        /\ result = "Response"
        /\ call.fn \in {"lock", "wipe"} =>
             /\ httpLog[1].method = "POST"
             /\ httpLog[1].args = <<call.args[1] \o "/" \o call.fn>>

-----------------------------------------------------------------------------
(* What the request executor is expected to do with a response *)

\* a request method was entered: by a caller, or by a resource operation
\* whose decorators let the call through
Executed == phase \in {"called", "verb"} /\ mounted # <<>>

\* the response the executor got back from the session, if it got one
SeenResponse == served[1]

\* the statuses the call ignores: the defaults and the caller's own
IgnoreSet ==
    {200, 201, 202, 500} \cup Range(Get(call.kwargs, "ignore_statuses", <<>>))

-----------------------------------------------------------------------------
(* Claims about the request executor *)

\* C11: when the response the executor gets back has a status in the
\* call's ignore set (200, 201, 202, 500 and the caller's ignore_statuses)
\* the call returns that response and raises nothing, whatever the verb and
\* whether or not the body lists errors.
C11_IgnoredStatusReturned ==
    (Executed /\ ~dry_run /\ served # <<>> /\ SeenResponse.status \in IgnoreSet) =>
        /\ outcome = "returned"
        /\ result = "Response"
        /\ Len(httpLog) = 1

\* C11 witness: a GET with ignore_statuses=[404] got a 404 whose body lists
\* errors, and returned it.
C11_Witness ==
    /\ phase = "verb" /\ ~dry_run /\ call.fn = "GET"
    /\ served # <<>> /\ SeenResponse.status = 404 /\ SeenResponse.errors
    /\ 404 \in IgnoreSet
    /\ outcome = "returned" /\ result = "Response"

\* C12: when the response has a status outside the ignore set, with or
\* without a file upload: a body that lists errors ends the call in
\* APIException, before any HTTP-status raising; otherwise a non-2xx status
\* ends it in an HTTP error; otherwise the response is returned.
C12_ErrorsThenStatus ==
    (Executed /\ ~dry_run /\ served # <<>> /\ SeenResponse.status \notin IgnoreSet) =>
        outcome = (IF SeenResponse.errors THEN "APIException"
                   ELSE IF SeenResponse.status \notin 200..299 THEN "HTTPError"
                   ELSE "returned")

\* C13: in dry-run mode nothing goes on the wire and no upload file is
\* opened; a call that enters a request method prints once, the verb, the
\* target and the transport parameters, and returns None.
C13_DryRunSendsNothing ==
    (dry_run /\ phase \in {"called", "verb"}) =>
        /\ httpLog = <<>> /\ attempts = 0 /\ opened = 0 /\ served = <<>>
        /\ Executed =>
             /\ outcome = "returned" /\ result = "None"
             /\ Len(printed) = 1
             /\ "params" \in DOMAIN printed[1].kwargs
             /\ phase = "verb" =>
                  (printed[1].method = call.fn /\ printed[1].args = call.args)

\* C13 witness: a dry-run POST with an upload printed once and returned None.
C13_Witness ==
    /\ dry_run /\ phase = "verb" /\ call.fn = "POST"
    /\ "file_upload" \in DOMAIN call.kwargs
    /\ Len(printed) = 1 /\ printed[1].method = "POST"
    /\ "files" \in DOMAIN printed[1].kwargs
    /\ result = "None" /\ opened = 0

\* C14: in dry-run mode a paginated list operation never yields a record
\* and never sends a request; once the generator is exhausted it has made
\* exactly one non-executing GET, whatever limit, starting_after and
\* direction are.
C14_DryRunListOneCall ==
    (dry_run /\ phase = "listing") =>
        /\ yielded = <<>> /\ httpLog = <<>> /\ attempts = 0 /\ served = <<>>
        /\ Len(printed) <= 1
        /\ gen = "done" => (Len(printed) = 1 /\ printed[1].method = "GET")

\* C14 witness: a dry-run list_all(limit=2, starting_after=1,
\* direction="desc") over a non-empty list is exhausted after one print.
C14_Witness ==
    /\ dry_run /\ phase = "listing" /\ gen = "done"
    /\ serverList # <<>>
    /\ DOMAIN call.kwargs = {"limit", "starting_after", "direction"}
    /\ call.kwargs["limit"] = 2 /\ call.kwargs["direction"] = "desc"
    /\ Len(printed) = 1
    /\ printed[1].kwargs["params"]["limit"] = 2

-----------------------------------------------------------------------------
(* Claims about the retry adapter *)

\* the statuses the call retries: the defaults and the caller's own
RetrySet ==
    {429, 500, 502, 503, 504} \cup Range(Get(call.kwargs, "retry_statuses", <<>>))

\* the transport answered every attempt made with a status of the retry set
AllTransient ==
    \A i \in 1..attempts : Answer(transport, i).status \in RetrySet

\* C15: with a budget of at least k, a transport that answers k times with
\* a retry-set status and then with 200 is asked exactly k+1 times and the
\* 200 response is returned, whatever the verb of the request.
C15_RetriedUntilSuccess ==
    (phase = "verb" /\ ~dry_run /\ outcome # "FileNotFoundError"
       /\ transport.count <= HTTP_MAX_RETRIES
       /\ transport.pre \in RetrySet
       /\ transport.resp.status = 200) =>
        /\ attempts = transport.count + 1
        /\ outcome = "returned"
        /\ result = "Response"

\* C20: one call makes at most HTTP_MAX_RETRIES + 1 attempts; when it has
\* made them all and every answer was a retry-set status, the call ends in
\* RetryError and no response is handed to the caller.
C20_ExhaustedRaises ==
    (phase \in {"called", "verb"} /\ ~dry_run) =>
        /\ attempts <= HTTP_MAX_RETRIES + 1
        /\ (attempts = HTTP_MAX_RETRIES + 1 /\ AllTransient) =>
             (outcome = "RetryError" /\ result = "None" /\ served = <<>>)

\* C20 witness: a GET answered 503 every time ended in RetryError after
\* four attempts.
C20_Witness ==
    /\ phase = "verb" /\ ~dry_run /\ call.fn = "GET"
    /\ attempts = HTTP_MAX_RETRIES + 1 /\ AllTransient
    /\ transport.resp.status = 503
    /\ outcome = "RetryError"

-----------------------------------------------------------------------------
(* Claims about the URL builder *)

\* the index of the first ":" of s at or after i, 0 when there is none
RECURSIVE FindColon(_, _)
FindColon(s, i) ==
    IF i > Len(s) THEN 0
    ELSE IF SubSeq(s, i, i) = ":" THEN i
    ELSE FindColon(s, i + 1)

\* s holds two "/" in a row
HasDoubleSlash(s) == \E i \in 1..(Len(s) - 1) : SubSeq(s, i, i + 1) = "//"

\* what follows the "://" of the scheme
AfterScheme(url) == SubSeq(url, FindColon(url, 1) + 3, Len(url))

\* C16: the URL built from a base with a scheme and any list of segments
\* keeps exactly "://" after the scheme and has no two "/" in a row after
\* it; the base BASE_URL with v1, devices, 42, profiles gives
\* https://a.simplemdm.com/api/v1/devices/42/profiles.
C16_NoDoubleSlash ==
    phase = "joined" =>
        LET c == FindColon(result, 1)
        IN  /\ c > 0
            /\ SubSeq(result, c, c + 2) = "://"
            /\ ~HasDoubleSlash(AfterScheme(result))
            /\ (call.kwargs["base"] = BASE_URL
                  /\ call.args = <<"v1", "devices", "42", "profiles">>) =>
                 result = "https://a.simplemdm.com/api/v1/devices/42/profiles"

-----------------------------------------------------------------------------
(* Claims about the credential *)

\* the token value the client is configured with
Configured ==
    IF TokenTruthy(call.kwargs.tkn) THEN call.kwargs.tkn ELSE ClassToken(call.kwargs.env)

\* C17: constructing a client completes without error, and the username of
\* the session's basic authentication is the trimmed contents of the file
\* when the configured token value (str or Path, the default path
\* included) names an existing file, and the trimmed value itself otherwise.
C17_CredentialRead ==
    phase = "connected" =>
        /\ outcome = "returned"
        /\ result = (IF call.kwargs.is_file THEN Strip(call.kwargs.contents)
                     ELSE Strip(Configured.text))

-----------------------------------------------------------------------------
(* Claims about the parameter classifier *)

\* the keys the transport accepts, and the keys kept for the library
TransportKeys ==
    {"method", "url", "params", "data", "headers", "cookies", "files", "auth",
     "timeout", "allow_redirects", "proxies", "hooks", "stream", "verify",
     "cert", "json"}

ControlKeys == {"ignore_statuses", "retry_statuses", "file_upload"}

\* the transport mapping of the call, as it was sent or printed
SentKwargs == IF printed # <<>> THEN printed[1].kwargs ELSE httpLog[1].kwargs

\* C18: of the keyword arguments of a request method, every transport key
\* is in the transport mapping with the caller's value (the path of a live
\* upload as the handle opened on it), every control key
\* is in the control mapping only, and every other key is in the "params"
\* sub-mapping of the transport mapping with its value.
C18_ClassifierPartition ==
    (phase = "verb" /\ (printed # <<>> \/ httpLog # <<>>)) =>
        LET given == call.kwargs
            control == consume_kwargs(given).func
        IN  \A k \in DOMAIN given :
              /\ k \in TransportKeys =>
                   /\ k \in DOMAIN SentKwargs
                   /\ SentKwargs[k] =
                        (IF k = "files" /\ httpLog # <<>> /\ "file_upload" \in DOMAIN given
                         THEN [given[k] EXCEPT ![given["file_upload"]] = file_open(@, "rb")]
                         ELSE given[k])
              /\ k \in ControlKeys =>
                   /\ k \in DOMAIN control /\ control[k] = given[k]
                   /\ k \notin DOMAIN SentKwargs
                   /\ k \notin DOMAIN SentKwargs["params"]
              /\ k \notin TransportKeys \cup ControlKeys =>
                   /\ k \in DOMAIN SentKwargs["params"]
                   /\ SentKwargs["params"][k] = given[k]
                   /\ k \notin DOMAIN control

-----------------------------------------------------------------------------
(* Claims about the validators and the transport *)

\* the errors with which a validator rejects a call
ValidatorErrors ==
    {"TypeError:required", "TypeError:any", "AttributeError", "ValueError:value",
     "ValueError:pin", "FileNotFoundError", "PackageNotSigned"}

\* C19: a call of a resource operation that ends in a validator's error
\* has put no request on the session, made no attempt on the wire, printed
\* nothing and handed nothing back.
C19_RejectedBeforeRequest ==
    (phase = "called" /\ outcome \in ValidatorErrors) =>
        /\ httpLog = <<>> /\ attempts = 0 /\ served = <<>>
        /\ printed = <<>> /\ opened = 0
        /\ result = "None"

\* C19 witness: Apps.create with an unsigned .pkg was rejected by the
\* signed-package validator before any request.
C19_Witness ==
    /\ phase = "called" /\ call.cls = "Apps" /\ call.fn = "create"
    /\ outcome = "PackageNotSigned"
    /\ httpLog = <<>> /\ attempts = 0

-----------------------------------------------------------------------------
(* Claims about the transport parameters of a request *)

\* the field that designates the upload of the call, PyNone when the call
\* is no upload
UploadField ==
    LET kw == IF phase = "called"
              THEN method_params(call.cls, call.fn, call.kwargs, TRUE, TRUE).kwargs
              ELSE call.kwargs
    IN  IF phase \in {"called", "verb", "sent"} /\ "file_upload" \in DOMAIN kw
           /\ FilesTruthy(kw)
        THEN kw["file_upload"]
        ELSE PyNone

\* the path the caller gave for the upload
UploadPath ==
    LET kw == IF phase = "called"
              THEN method_params(call.cls, call.fn, call.kwargs, TRUE, TRUE).kwargs
              ELSE call.kwargs
    IN  kw["files"][UploadField]

\* C22: every file a call opened is closed when the call has ended,
\* whether it returned a response or raised; a call opens a file only when
\* an upload field is designated, opens it once, in binary read mode, and
\* sends the handle in place of the path; in dry-run mode no file is
\* opened.
C22_UploadHandleScoped ==
    /\ closed = opened
    /\ dry_run => opened = 0
    /\ opened > 0 => (UploadField # PyNone /\ opened = 1 /\ Len(httpLog) = 1)
    /\ (UploadField # PyNone /\ httpLog # <<>>) =>
         /\ opened = 1
         /\ httpLog[1].kwargs["files"][UploadField] = file_open(UploadPath, "rb")

\* C22 witness: an upload through PUT met 503 on every attempt, the call
\* raised RetryError, and the one handle it had opened was sent and closed.
C22_Witness ==
    /\ phase = "verb" /\ outcome = "RetryError" /\ UploadField = "file"
    /\ opened = 1 /\ closed = 1
    /\ httpLog[1].kwargs["files"]["file"] = file_open("s.sh", "rb")

\* the (connect, read) timeout pair of the client
ClientTimeout == <<HTTP_CONNECT_TIMEOUT, HTTP_READ_TIMEOUT>>

\* the caller named an upload field or gave a files mapping
IsUploadCall ==
    Truthy(Get(call.kwargs, "file_upload", PyNone)) \/ FilesTruthy(call.kwargs)

\* C23: a request that names no upload field and carries no files is sent
\* with the caller's timeout if there is one and with the client's
\* (connect, read) pair otherwise; a request that names an upload field or
\* carries files is sent with the caller's timeout or with none.
C23_TimeoutUnlessUpload ==
    (phase \in {"verb", "sent"} /\ (printed # <<>> \/ httpLog # <<>>)) =>
        IF "timeout" \in DOMAIN call.kwargs
        THEN "timeout" \in DOMAIN SentKwargs /\ SentKwargs["timeout"] = call.kwargs["timeout"]
        ELSE IF IsUploadCall
        THEN "timeout" \notin DOMAIN SentKwargs
        ELSE "timeout" \in DOMAIN SentKwargs /\ SentKwargs["timeout"] = ClientTimeout

\* C23 witness: a live upload was sent without a timeout.
C23_Witness ==
    /\ phase = "sent" /\ ~dry_run /\ httpLog # <<>>
    /\ UploadField = "file"
    /\ "timeout" \notin DOMAIN httpLog[1].kwargs

\* the json body of the call is truthy
HasJsonBody == Truthy(Get(call.kwargs, "json", PyNone))

JsonContentType == "Content-Type" :> "application/json"

\* C28: a request with a truthy json body is sent with the header
\* Content-Type: application/json; a request without one is sent with the
\* caller's headers, or with no headers when the caller gave none.
C28_JsonContentType ==
    (phase \in {"verb", "sent"} /\ (printed # <<>> \/ httpLog # <<>>)) =>
        IF HasJsonBody
        THEN /\ "headers" \in DOMAIN SentKwargs
             /\ "Content-Type" \in DOMAIN SentKwargs["headers"]
             /\ SentKwargs["headers"]["Content-Type"] = "application/json"
        ELSE IF "headers" \in DOMAIN call.kwargs
        THEN "headers" \in DOMAIN SentKwargs /\ SentKwargs["headers"] = call.kwargs["headers"]
        ELSE "headers" \notin DOMAIN SentKwargs

\* C28 witness: a json body was posted by a caller who gave no headers, and
\* the request went out with the json content type.
C28_Witness ==
    /\ phase = "sent" /\ ~dry_run /\ httpLog # <<>>
    /\ HasJsonBody /\ "headers" \notin DOMAIN call.kwargs
    /\ httpLog[1].kwargs["headers"]["Content-Type"] = "application/json"

\* C30: the headers of a request with a truthy json body are exactly
\* Content-Type: application/json, whatever headers the caller gave.
C30_JsonHeadersReplaced ==
    (phase \in {"verb", "sent"} /\ (printed # <<>> \/ httpLog # <<>>) /\ HasJsonBody) =>
        /\ "headers" \in DOMAIN SentKwargs
        /\ SentKwargs["headers"] = JsonContentType

\* C30 witness: the caller gave the header X-A with a json body and the
\* request went out without X-A.
C30_Witness ==
    /\ phase = "sent" /\ ~dry_run /\ httpLog # <<>> /\ HasJsonBody
    /\ "headers" \in DOMAIN call.kwargs
    /\ "X-A" \in DOMAIN call.kwargs["headers"]
    /\ "X-A" \notin DOMAIN httpLog[1].kwargs["headers"]

-----------------------------------------------------------------------------
(* Claims about the status lists of a call, over the calls of one client *)

\* a request method was called directly
DirectCall == phase \in {"verb", "sent", "session"}

\* the retry list of the call: the caller's retry_statuses, then the list
\* of the class
CallRetryList == Get(call.kwargs, "retry_statuses", <<>>) \o HTTP_RETRY_STATUS_LIST

\* the ignore list of the call: the caller's ignore_statuses, then the list
\* of the class
CallIgnoreList == Get(call.kwargs, "ignore_statuses", <<>>) \o HTTP_IGNORE_STATUS_ERR

\* an earlier call on the client passed a value v under key k
EarlierPassed(k, v) ==
    \E i \in 1..Len(earlier) : k \in DOMAIN earlier[i] /\ earlier[i][k] = v

\* C21: after every call of a request method the adapter on the session
\* carries the retry list of that call, the caller's retry_statuses
\* followed by the client's list, whatever earlier calls passed; a call is
\* retried only on a status of its own list, and a GET on every status of
\* its list; the client's retry list is what it was at the start.
C21_RetryListPerCall ==
    /\ status_lists.retry = HTTP_RETRY_STATUS_LIST
    /\ DirectCall =>
         /\ mounted = CallRetryList
         /\ (~dry_run /\ attempts > 1) =>
              Answer(transport, 1).status \in Range(CallRetryList)
         /\ (~dry_run /\ phase = "session") =>
              (attempts > 1 <=> Answer(transport, 1).status \in Range(CallRetryList))

\* C21 witness: after a call with retry_statuses=[404], a call without
\* retry_statuses met a 404, was not retried, and left the adapter with the
\* client's list only.
C21_Witness ==
    /\ phase = "session" /\ ~dry_run
    /\ EarlierPassed("retry_statuses", <<404>>)
    /\ "retry_statuses" \notin DOMAIN call.kwargs
    /\ transport.resp.status = 404
    /\ attempts = 1
    /\ mounted = HTTP_RETRY_STATUS_LIST

\* C29: the ignore list of every call holds the client's defaults 200, 201,
\* 202 and 500, so a response with a default status is returned whatever
\* the caller passed; a response that would raise is returned only when its
\* status is in the ignore list of that very call, whatever earlier calls
\* passed; the client's ignore list is what it was at the start.
C29_IgnoreDefaultsKept ==
    /\ status_lists.ignore = HTTP_IGNORE_STATUS_ERR
    /\ DirectCall =>
         /\ Range(HTTP_IGNORE_STATUS_ERR) \subseteq
              Range(consume_func_kwargs(consume_kwargs(call.kwargs).func).ignore)
         /\ (~dry_run /\ served # <<>>) =>
              /\ SeenResponse.status \in Range(HTTP_IGNORE_STATUS_ERR) =>
                   outcome = "returned"
              /\ (outcome = "returned"
                  /\ (RaisesForStatus(SeenResponse.status) \/ SeenResponse.errors)) =>
                   SeenResponse.status \in Range(CallIgnoreList)

\* C29 witness: after a call with ignore_statuses=[404], a call without
\* ignore_statuses got a 404 and raised HTTPError.
C29_Witness ==
    /\ phase = "session" /\ ~dry_run
    /\ EarlierPassed("ignore_statuses", <<404>>)
    /\ "ignore_statuses" \notin DOMAIN call.kwargs
    /\ served # <<>> /\ SeenResponse.status = 404
    /\ outcome = "HTTPError"

-----------------------------------------------------------------------------
(* Claims about the upload of installer packages *)

\* the call names a file with the extension .pkg under the parameter param
NamesPackage(param) ==
    /\ phase = "called"
    /\ param \in DOMAIN call.kwargs
    /\ Truthy(call.kwargs[param])
    /\ Suffix(call.kwargs[param]) = ".pkg"

\* the errors of the checks that come before the package check
EarlierErrors ==
    {"TypeError:required", "TypeError:any", "AttributeError", "ValueError:value"}

\* C24: a call that names a .pkg file under binary and passes the checks
\* before the package check ends in FileNotFoundError when the file does
\* not exist and in PackageNotSigned when it exists unsigned, in both cases
\* with no request sent or printed; a call that names no .pkg under binary
\* never ends in PackageNotSigned.
C24_PackageChecked ==
    phase = "called" =>
        /\ (NamesPackage("binary") /\ outcome \notin EarlierErrors) =>
             /\ ~disk.exists =>
                  (outcome = "FileNotFoundError" /\ httpLog = <<>> /\ printed = <<>>
                   /\ attempts = 0)
             /\ (disk.exists /\ ~disk.signed) =>
                  (outcome = "PackageNotSigned" /\ httpLog = <<>> /\ printed = <<>>
                   /\ attempts = 0)
             /\ (disk.exists /\ disk.signed) =>
                  outcome \notin {"FileNotFoundError", "PackageNotSigned"}
        /\ ~NamesPackage("binary") => outcome # "PackageNotSigned"

\* C24 witness: Apps.update with a .pkg that is not on the disk ended in
\* FileNotFoundError in dry-run mode, before anything was printed.
C24_Witness ==
    /\ phase = "called" /\ call.cls = "Apps" /\ call.fn = "update"
    /\ NamesPackage("binary") /\ ~disk.exists /\ dry_run
    /\ outcome = "FileNotFoundError" /\ printed = <<>>

-----------------------------------------------------------------------------
(* Claims about the order and the parameters of the page fetches *)

\* the records of the pages received before the last one
EarlierPagesData ==
    Flatten([i \in 1..(Len(served) - 1) |-> served[i].data])

\* C25: a list operation that has returned its generator has fetched
\* nothing until the consumer asks for the first record; afterwards every
\* fetch issued has been answered, the records received are the records
\* handed over followed by those of the last page still to be handed over,
\* and every record of every page before the last has been handed over.
C25_LazySequential ==
    phase = "listing" =>
        /\ gen = "created" =>
             (httpLog = <<>> /\ printed = <<>> /\ served = <<>> /\ attempts = 0
              /\ yielded = <<>>)
        /\ ~dry_run =>
             /\ Len(httpLog) = Len(served)
             /\ attempts = Len(httpLog)
             /\ yielded \o objects = ServedData
             /\ IsPrefix(EarlierPagesData, yielded)

\* C25 witness: a first page of two records was handed over record by
\* record before the second page was fetched.
C25_Witness ==
    /\ phase = "listing" /\ ~dry_run
    /\ Len(served) = 2 /\ Len(httpLog) = 2
    /\ Len(served[1].data) = 2
    /\ Len(served[2].data) = 1
    /\ Len(yielded) = 3

\* the requests of a run, sent or printed
RunRequests == httpLog \o printed

\* C26: every fetch of a run carries the caller's limit (100 when there is
\* none) and the caller's direction ("asc" when there is none), the first
\* fetch carries the caller's starting_after (0 when there is none), and a
\* fetch carries these three parameters and no other.
C26_FetchParameters ==
    phase = "listing" =>
        \A n \in 1..Len(RunRequests) :
            LET params == RunRequests[n].kwargs["params"]
            IN  /\ DOMAIN params = {"limit", "starting_after", "direction"}
                /\ params["limit"] = Get(call.kwargs, "limit", DefaultLimit)
                /\ params["direction"] = Get(call.kwargs, "direction", "asc")
                /\ n = 1 => params["starting_after"] =
                              Get(call.kwargs, "starting_after", DefaultStartingAfter)

\* C26 witness: a caller gave a limit of 1 and nothing else; the second
\* fetch went out with limit 1, direction asc and another cursor than the
\* first.
C26_Witness ==
    /\ phase = "listing" /\ ~dry_run
    /\ DOMAIN call.kwargs = {"limit"} /\ call.kwargs["limit"] = 1
    /\ Len(httpLog) = 2
    /\ httpLog[1].kwargs["params"]["starting_after"] = DefaultStartingAfter
    /\ httpLog[2].kwargs["params"]["limit"] = 1
    /\ httpLog[2].kwargs["params"]["direction"] = "asc"
    /\ httpLog[2].kwargs["params"]["starting_after"] # DefaultStartingAfter

-----------------------------------------------------------------------------
(* Claims about the target of a request *)

\* the operation that was called
CalledOperation == CHOOSE op \in Operations : op.cls = call.cls /\ op.fn = call.fn

\* the values of the parameters the operation turns into path segments
SuffixValues(op) ==
    LET present == SelectSeq(op.sfx_params, LAMBDA k : k \in DOMAIN call.kwargs)
    IN  [i \in 1..Len(present) |-> call.kwargs[present[i]]]

\* base / api version / endpoint / positional arguments / suffix / suffix
\* parameters, every segment once
ExpectedUrl ==
    LET op == CalledOperation
        segments == <<API_VERS, endpoint(op.cls)>> \o call.args \o <<op.sfx>>
                    \o SuffixValues(op)
    IN  BASE_URL \o "/" \o Join(SelectSeq(segments, LAMBDA q : q # ""))

\* the request of the call, sent or printed
SentRequest == IF printed # <<>> THEN printed[1] ELSE httpLog[1]

\* C27: the URL built from a base and segments is the base, a "/" and the
\* non-empty segments in their order, joined by "/"; the request of a
\* resource operation goes to base / api version / endpoint / positional
\* arguments / suffix / suffix parameters, every segment once.
C27_UrlOfOperation ==
    /\ (phase = "joined" /\ call.kwargs["base"] = BASE_URL) =>
         result = BASE_URL \o "/" \o Join(SelectSeq(call.args, LAMBDA q : q # ""))
    /\ (phase = "called" /\ (printed # <<>> \/ httpLog # <<>>)) =>
         request_url(call.cls, SentRequest.args) = ExpectedUrl

====
